---- MODULE Spec2Model ----
(***************************************************************************)
(* Model of the semopy Streamlit front end (src/main.py).                  *)
(*                                                                         *)
(* The whole script main() re-executes on every widget interaction.  The   *)
(* state that survives a rerun is the widget state kept by Streamlit: the  *)
(* uploaded file, the two select boxes and st.session_state['model_syntax']*)
(* (the key of the text area).  Everything the script writes to the page   *)
(* (view) is rebuilt from scratch by every rerun.                          *)
(*                                                                         *)
(* Text is a sequence of tokens: a token is either a whitespace character  *)
(* or a maximal piece of a line without leading or trailing whitespace.    *)
(* Numbers are integers counting 1/10000, so 12.3456 is 123456.            *)
(***************************************************************************)
EXTENDS Integers, Sequences, FiniteSets, TLC

VARIABLES uploaded_file, category, example, model_syntax, view, engine, lastOp

vars == <<uploaded_file, category, example, model_syntax, view, engine, lastOp>>

(* ------------------------------ bounds --------------------------------- *)
MaxCols == 8
MaxRows == 2

(* ------------------------------- text ---------------------------------- *)
NL == "\n"
Whitespace == {NL, " ", "\t"}

RECURSIVE LStrip(_)
LStrip(s) == IF s # <<>> /\ Head(s) \in Whitespace THEN LStrip(Tail(s)) ELSE s

RECURSIVE RStrip(_)
RStrip(s) ==
    IF s # <<>> /\ s[Len(s)] \in Whitespace THEN RStrip(SubSeq(s, 1, Len(s) - 1)) ELSE s

\* str.strip()
Strip(s) == RStrip(LStrip(s))

(* --------------------------- template catalog -------------------------- *)
Categories ==
    <<"Cross-Sectional Models", "Longitudinal Models", "Multi-Group Models", "Advanced Models">>

ExampleNames ==
    ("Cross-Sectional Models" :>
        <<"Simple Mediation Model", "Full Mediation Model", "Confirmatory Factor Analysis">>)
    @@ ("Longitudinal Models" :>
        <<"Cross-Lagged Panel Model", "Latent Growth Curve Model">>)
    @@ ("Multi-Group Models" :>
        <<"Measurement Invariance", "Structural Multi-Group Model">>)
    @@ ("Advanced Models" :>
        <<"Mediation with Moderation", "Higher-Order Factor Model",
          "Latent Interaction Model", "Bifactor Model">>)

MODEL_SYNTAX_EXAMPLES ==
    ("Cross-Sectional Models" :>
        (("Simple Mediation Model" :>
            <<NL, "# Simple Mediation Model",
              NL, "Mediator ~ IndependentVariable",
              NL, "DependentVariable ~ Mediator + IndependentVariable", NL>>)
         @@ ("Full Mediation Model" :>
            <<NL, "# Full Mediation Model",
              NL, "Mediator ~ IndependentVariable",
              NL, "DependentVariable ~ Mediator",
              NL, "IndependentVariable ~~ Mediator", NL>>)
         @@ ("Confirmatory Factor Analysis" :>
            <<NL, "# Confirmatory Factor Analysis",
              NL, "Factor1 =~ Indicator1 + Indicator2 + Indicator3",
              NL, "Factor2 =~ Indicator4 + Indicator5 + Indicator6",
              NL, "Factor1 ~~ Factor2", NL>>)))
    @@ ("Longitudinal Models" :>
        (("Cross-Lagged Panel Model" :>
            <<NL, "# Cross-Lagged Panel Model",
              NL, "Y1 ~ X0",
              NL, "X1 ~ Y0",
              NL, "Y2 ~ Y1 + X1",
              NL, "X2 ~ X1 + Y1", NL>>)
         @@ ("Latent Growth Curve Model" :>
            <<NL, "# Latent Growth Curve Model",
              NL, "Intercept =~ 1*Y1 + 1*Y2 + 1*Y3",
              NL, "Slope =~ 0*Y1 + 1*Y2 + 2*Y3",
              NL, "Y1 ~ Intercept + 0*Slope",
              NL, "Y2 ~ Intercept + 1*Slope",
              NL, "Y3 ~ Intercept + 2*Slope", NL>>)))
    @@ ("Multi-Group Models" :>
        (("Measurement Invariance" :>
            <<NL, "# Measurement Invariance",
              NL, "Factor1 =~ Indicator1 + Indicator2 + Indicator3",
              NL, "Factor2 =~ Indicator4 + Indicator5 + Indicator6",
              NL, "# Invariant across groups",
              NL, "Factor1 ~~ Factor2", NL>>)
         @@ ("Structural Multi-Group Model" :>
            <<NL, "# Structural Multi-Group Model",
              NL, "Mediator ~ IndependentVariable",
              NL, "DependentVariable ~ Mediator + IndependentVariable",
              NL, "Mediator ~~ IndependentVariable",
              NL, "# Constraints across groups",
              NL, "Mediator ~~ IndependentVariable @1",
              NL, "DependentVariable ~~ Mediator @1", NL>>)))
    @@ ("Advanced Models" :>
        (("Mediation with Moderation" :>
            <<NL, "# Mediation with Moderation",
              NL, "Mediator ~ IndependentVariable + Moderator",
              NL, "DependentVariable ~ Mediator + IndependentVariable + Moderator + IndependentVariable*Moderator",
              NL, "IndependentVariable ~~ Moderator", NL>>)
         @@ ("Higher-Order Factor Model" :>
            <<NL, "# Higher-Order Factor Model",
              NL, "Factor1 =~ Indicator1 + Indicator2 + Indicator3",
              NL, "Factor2 =~ Indicator4 + Indicator5 + Indicator6",
              NL, "HigherOrderFactor =~ Factor1 + Factor2",
              NL, "HigherOrderFactor ~~ HigherOrderFactor", NL>>)
         @@ ("Latent Interaction Model" :>
            <<NL, "# Latent Interaction Model",
              NL, "FactorA =~ X1 + X2 + X3",
              NL, "FactorB =~ Y1 + Y2 + Y3",
              NL, "Interaction =~ FactorA * FactorB",
              NL, "DependentVariable ~ Interaction + FactorA + FactorB", NL>>)
         @@ ("Bifactor Model" :>
            <<NL, "# Bifactor Model",
              NL, "GeneralFactor =~ X1 + X2 + X3 + X4 + X5",
              NL, "SpecificFactor1 =~ X1 + X2 + X3",
              NL, "SpecificFactor2 =~ X4 + X5",
              NL, "GeneralFactor ~~ SpecificFactor1 + SpecificFactor2",
              NL, "SpecificFactor1 ~~ SpecificFactor2", NL>>)))

Range(s) == {s[i] : i \in 1..Len(s)}

\* A select box without a stored value shows its first option.
DefaultCategory == Categories[1]
DefaultExample(c) == ExampleNames[c][1]

(* ------------------------------ Python values -------------------------- *)
\* A cell of a table or a value of a statistics mapping.  t is the Python
\* type: "int", "float" (n counts 1/10000) or "str" (text s); the formatted
\* strings the script produces are "plain" (format(v, "")), "f2" and "f3"
\* (n counts 1/100 and 1/1000).
PyInt(v)   == [t |-> "int",   n |-> v, s |-> ""]
PyFloat(v) == [t |-> "float", n |-> v, s |-> ""]
PyStr(x)   == [t |-> "str",   n |-> 0, s |-> x]
Fmt(k, v, src) == [t |-> k, n |-> v, s |-> src]

NA == PyStr("N/A")

\* Nearest multiple: the model's numbers are never exactly half way.
RoundDiv(v, d) == (2 * v + d) \div (2 * d)

\* format(value, ".<digits>f") of an int or a float
FormatFixed(value, digits) ==
    LET scaled == IF value.t = "int" THEN value.n * 10000 ELSE value.n
    IN  IF digits = 2 THEN Fmt("f2", RoundDiv(scaled, 100), "")
                      ELSE Fmt("f3", RoundDiv(scaled, 10), "")

\* format(value, ""), that is str(value): "4" for 4 and "4.0" for 4.0
FormatPlain(value) == Fmt("plain", value.n, value.t)

IsNumber(value) == value.t \in {"int", "float"}

(* ------------------------- format_apa_statistics ----------------------- *)
safe_format(value, fmt) ==
    IF IsNumber(value)
    THEN IF fmt = "" THEN FormatPlain(value)
         ELSE IF fmt = ".2f" THEN FormatFixed(value, 2) ELSE FormatFixed(value, 3)
    ELSE value

\* dict.get(key, 'N/A')
StatGet(stat_dict, key) == IF key \in DOMAIN stat_dict THEN stat_dict[key] ELSE NA

format_apa_statistics(stat_dict) ==
    [chi_sq      |-> safe_format(StatGet(stat_dict, "Chi-square"), ".2f"),
     df          |-> safe_format(StatGet(stat_dict, "df"), ""),
     p_val       |-> safe_format(StatGet(stat_dict, "p-value"), ".3f"),
     cfi         |-> safe_format(StatGet(stat_dict, "CFI"), ".3f"),
     tli         |-> safe_format(StatGet(stat_dict, "TLI"), ".3f"),
     rmsea       |-> safe_format(StatGet(stat_dict, "RMSEA"), ".3f"),
     rmsea_lower |-> safe_format(StatGet(stat_dict, "RMSEA Lower"), ".3f"),
     rmsea_upper |-> safe_format(StatGet(stat_dict, "RMSEA Upper"), ".3f")]

(* -------------------------------- load_data ---------------------------- *)
\* A file name is the sequence of its pieces between dots, each piece a
\* sequence of characters; ok tells whether the bytes decode.
LowerChar(c) ==
    CASE c = "C" -> "c" [] c = "S" -> "s" [] c = "V" -> "v" [] c = "T" -> "t"
      [] c = "X" -> "x" [] c = "L" -> "l" [] c = "J" -> "j" [] c = "O" -> "o"
      [] c = "N" -> "n" [] c = "D" -> "d" [] c = "A" -> "a" [] c = "P" -> "p"
      [] c = "R" -> "r" [] c = "B" -> "b" [] OTHER -> c

\* str.lower()
Lower(w) == [i \in 1..Len(w) |-> LowerChar(w[i])]

\* The extension compared as typed, without lower().
file_extension_as_typed(name) == name[Len(name)]

\* uploaded_file.name.split('.')[-1].lower()
file_extension(name) == Lower(name[Len(name)])

Decoder(ext) ==
    CASE ext = <<"c", "s", "v">> -> "pd.read_csv"
      [] ext = <<"x", "l", "s">> -> "pd.read_excel(xlrd)"
      [] ext = <<"x", "l", "s", "x">> -> "pd.read_excel(openpyxl)"
      [] ext \in {<<"s", "a", "v">>, <<"p", "o", "r">>} -> "pyreadstat.read_sav"
      [] ext = <<"d", "t", "a">> -> "pd.read_stata"
      [] ext = <<"j", "s", "o", "n">> -> "pd.read_json"
      [] OTHER -> ""

\* The value returned (data is <<>> for None, <<d>> for a DataFrame d), the
\* decoder that was called and the st.error written.
load_data(file) ==
    LET ext == file_extension(file.name)
        dec == Decoder(ext)
    IN  IF dec = ""
        THEN [data |-> <<>>, decoder |-> "", error |-> "Unsupported file format"]
        ELSE IF file.ok
             THEN [data |-> <<[decoder |-> dec, name |-> file.name]>>,
                   decoder |-> dec, error |-> ""]
             ELSE [data |-> <<>>, decoder |-> dec, error |-> "Error loading data"]

(* --------------------------- parameter table --------------------------- *)
\* A DataFrame: cols are the column labels, rows the cells row by row.
expected_columns ==
    <<"Parameter", "Estimate", "Std. Error", "z-value", "p-value", "CI Lower", "CI Upper">>

Width(df) == Len(df.cols)

IndexOf(seq, x) == CHOOSE i \in 1..Len(seq) : seq[i] = x

\* params.iloc[:, :k]
Iloc(df, k) ==
    [cols |-> SubSeq(df.cols, 1, k),
     rows |-> [r \in 1..Len(df.rows) |-> SubSeq(df.rows[r], 1, k)]]

\* params[label] = value: a new last column, or the column of that label
\* overwritten when the frame already has one.
SetColumn(df, label, value) ==
    IF label \in Range(df.cols)
    THEN [cols |-> df.cols,
          rows |-> [r \in 1..Len(df.rows) |->
                       [df.rows[r] EXCEPT ![IndexOf(df.cols, label)] = value]]]
    ELSE [cols |-> Append(df.cols, label),
          rows |-> [r \in 1..Len(df.rows) |-> Append(df.rows[r], value)]]

\* for _ in range(additional_cols): params[f'Extra_{_+1}'] = 'N/A'
RECURSIVE AddExtraColumns(_, _, _)
AddExtraColumns(df, k, additional_cols) ==
    IF k > additional_cols THEN df
    ELSE AddExtraColumns(SetColumn(df, "Extra_" \o ToString(k), NA), k + 1, additional_cols)

\* params.columns = labels raises ValueError unless the lengths agree.
SetColumns(df, labels) ==
    IF Len(labels) = Width(df)
    THEN [cols |-> labels, rows |-> df.rows, raised |-> FALSE]
    ELSE [cols |-> df.cols, rows |-> df.rows, raised |-> TRUE]

\* The same with the last columns kept, not the first, when there are too many.
RenameColumns_keep_last(params) ==
    IF Width(params) > Len(expected_columns)
    THEN LET first == Width(params) - Len(expected_columns) + 1
         IN  SetColumns([cols |-> SubSeq(params.cols, first, Width(params)),
                         rows |-> [r \in 1..Len(params.rows) |->
                                      SubSeq(params.rows[r], first, Width(params))]],
                        expected_columns)
    ELSE SetColumns(AddExtraColumns(params, 1, Len(expected_columns) - Width(params)),
                    expected_columns)

\* Lines 241-253: the column labels become expected_columns.
RenameColumns(params) ==
    IF Width(params) = Len(expected_columns)
    THEN SetColumns(params, expected_columns)
    ELSE IF Width(params) > Len(expected_columns)
         THEN SetColumns(Iloc(params, Len(expected_columns)), expected_columns)
         ELSE SetColumns(AddExtraColumns(params, 1, Len(expected_columns) - Width(params)),
                         expected_columns)

\* "{:.3f}".format(val), val itself when format raises
safe_param_format(val) == IF IsNumber(val) THEN FormatFixed(val, 3) ELSE val

FormattedColumns ==
    {"Estimate", "Std. Error", "z-value", "p-value", "CI Lower", "CI Upper"}

\* Lines 263-266
FormatParams(params) ==
    [cols |-> params.cols,
     rows |-> [r \in 1..Len(params.rows) |->
                  [c \in 1..Len(params.cols) |->
                      IF params.cols[c] \in FormattedColumns
                      THEN safe_param_format(params.rows[r][c])
                      ELSE params.rows[r][c]]]]

(* ----------------------------- fitting engine -------------------------- *)
\* The calls the script makes on semopy, in program order (lines 225, 226,
\* 227, 230 and 238).  The engine is a black box: eng.failAt is the call
\* that raises (0: none), eng.table the frame model.inspect() returns and
\* eng.stats the mapping inspect(model) returns.
EngineCalls == <<"Model", "model.fit", "model.inspect", "inspect", "model.inspect">>

\* A table of semopy's inspect(): its first n columns, r rows.
SemopyColumns == <<"lval", "op", "rval", "Estimate", "Std. Err", "z-value", "p-value">>

EngineColumn(i) ==
    IF i <= Len(SemopyColumns) THEN SemopyColumns[i] ELSE "column " \o ToString(i)

EngineCell(r, c) ==
    CASE EngineColumn(c) = "lval" -> PyStr(IF r % 2 = 1 THEN "Mediator" ELSE "DependentVariable")
      [] EngineColumn(c) = "op"   -> PyStr(IF r % 3 = 0 THEN "~~" ELSE "~")
      [] EngineColumn(c) = "rval" -> PyStr(IF r % 2 = 1 THEN "IndependentVariable" ELSE "Mediator")
      [] EngineColumn(c) = "Std. Err" /\ r % 2 = 0 -> PyStr("-")
      [] OTHER -> PyFloat(10000 * r + 1000 * c + 231 + r)

EngineTable(n, r) ==
    [cols |-> [c \in 1..n |-> EngineColumn(c)],
     rows |-> [i \in 1..r |-> [c \in 1..n |-> EngineCell(i, c)]]]

EngineTables == {EngineTable(n, r) : n \in 1..MaxCols, r \in 0..MaxRows}

CanonicalStats ==
    ("Chi-square" :> PyFloat(123456)) @@ ("df" :> PyInt(4)) @@ ("p-value" :> PyFloat(151))
    @@ ("CFI" :> PyFloat(9812)) @@ ("TLI" :> PyFloat(9733)) @@ ("RMSEA" :> PyFloat(412))
    @@ ("RMSEA Lower" :> PyFloat(101)) @@ ("RMSEA Upper" :> PyFloat(688))

AliasStats ==
    ("Chi2" :> PyFloat(123456)) @@ ("DoF" :> PyInt(4)) @@ ("PValue" :> PyFloat(151))
    @@ ("CFI" :> PyFloat(9812)) @@ ("TLI" :> PyFloat(9733)) @@ ("RMSEA" :> PyFloat(412))
    @@ ("RMSEA_CI_lower" :> PyFloat(101)) @@ ("RMSEA Upper" :> PyFloat(688))

NoBoundsStats ==
    ("Chi-square" :> PyFloat(31207)) @@ ("df" :> PyFloat(20000)) @@ ("p-value" :> PyFloat(2099))
    @@ ("CFI" :> PyInt(1)) @@ ("TLI" :> PyStr("nan")) @@ ("RMSEA" :> PyFloat(0))

\* What semopy's inspect(model) has for the script's keys: none of them.
FrameStats == ("Estimate" :> PyStr("column"))

StatInputs == {CanonicalStats, AliasStats, NoBoundsStats, FrameStats}

\* Every call may raise; a run without a failure returns any of the tables
\* or any of the statistics mappings.
EngineBehaviours ==
    {[failAt |-> k, table |-> EngineTable(Len(SemopyColumns), MaxRows), stats |-> st]
        : k \in {0, Len(EngineCalls)}, st \in StatInputs}
    \cup {[failAt |-> k, table |-> EngineTable(Len(SemopyColumns), MaxRows),
           stats |-> CanonicalStats] : k \in 1..Len(EngineCalls)}
    \cup {[failAt |-> 0, table |-> tb, stats |-> CanonicalStats] : tb \in EngineTables}

\* DataFrame.reset_index(): the row labels 0, 1, ... become the first column.
ResetIndex(df) ==
    [cols |-> <<"index">> \o df.cols,
     rows |-> [r \in 1..Len(df.rows) |-> <<PyInt(r - 1)>> \o df.rows[r]]]

EngineCall(k, text, data, eng) ==
    [op     |-> EngineCalls[k],
     spec   |-> IF k = 1 THEN text ELSE <<>>,
     data   |-> IF k = 2 THEN data ELSE <<>>,
     raised |-> eng.failAt = k]

\* Lines 223-268, the body of the try: the engine calls made, what reached
\* the page (apa by st.text, params by st.dataframe) and whether an
\* exception left the block.
try_block(text, data, eng) ==
    LET last    == IF eng.failAt = 0 THEN Len(EngineCalls) ELSE eng.failAt
        renamed == RenameColumns(ResetIndex(eng.table))
        shown   == [cols |-> renamed.cols, rows |-> renamed.rows]
    IN  [calls  |-> [k \in 1..last |-> EngineCall(k, text, data, eng)],
         stats  |-> IF eng.failAt \in {0, 5} THEN <<eng.stats>> ELSE <<>>,
         table  |-> IF eng.failAt = 0 THEN <<eng.table>> ELSE <<>>,
         apa    |-> IF eng.failAt \in {0, 5}
                    THEN <<format_apa_statistics(eng.stats)>> ELSE <<>>,
         params |-> IF eng.failAt = 0 /\ ~renamed.raised
                    THEN <<FormatParams(shown)>> ELSE <<>>,
         raised |-> eng.failAt # 0 \/ renamed.raised]

\* A handler that swallows the exception without reporting it.
except_handler_silent(raised) == ""

\* Lines 270-271: except Exception as e: st.error(...)
except_handler(raised) ==
    IF raised THEN "An error occurred while running SEM" ELSE ""

\* The test without strip(): not model_syntax
IsBlank_no_strip(text) == text = <<>>

\* Line 220: not model_syntax.strip()
IsBlank(text) == Strip(text) = <<>>

\* The assignment made on every rerun, outside the if of the button.
template_button_every_rerun(clicked, buffer, example_syntax) == Strip(example_syntax)

\* The assignment made only while the text area is still empty.
template_button_if_empty(clicked, buffer, example_syntax) ==
    IF clicked /\ buffer = <<>> THEN Strip(example_syntax) ELSE buffer

\* Lines 207-208: the value of st.session_state['model_syntax'] after the
\* load button.
template_button(clicked, buffer, example_syntax) ==
    IF clicked THEN Strip(example_syntax) ELSE buffer

(* --------------------------------- main -------------------------------- *)
NoEngine == [calls |-> <<>>, stats |-> <<>>, table |-> <<>>]

AllWidgets ==
    {"file_uploader", "category", "example", "load_button", "model_syntax", "run_button"}

BlankView ==
    [widgets |-> {"file_uploader"}, info |-> FALSE, decoder |-> "", load_error |-> "",
     data |-> <<>>, sidebar_error |-> "", apa |-> <<>>, params |-> <<>>, error |-> ""]

\* One execution of main(): the widget state it leaves, what it wrote to
\* the page and the engine calls it made.  A widget the run does not render
\* loses its state (the select boxes, and the text area with its key).
main(file, cat, ex, buffer, load_clicked, run_clicked, eng) ==
    IF file = <<>>
    THEN [category |-> DefaultCategory, example |-> DefaultExample(DefaultCategory),
          model_syntax |-> <<>>, engine |-> NoEngine,
          view |-> [BlankView EXCEPT !.info = TRUE]]
    ELSE
    LET ld == load_data(file[1]) IN
    IF ld.data = <<>>
    THEN [category |-> DefaultCategory, example |-> DefaultExample(DefaultCategory),
          model_syntax |-> <<>>, engine |-> NoEngine,
          view |-> [BlankView EXCEPT !.decoder = ld.decoder, !.load_error = ld.error]]
    ELSE
    LET example_syntax == MODEL_SYNTAX_EXAMPLES[cat][ex]
        text == template_button(load_clicked, buffer, example_syntax)
        base == [BlankView EXCEPT !.widgets = AllWidgets, !.decoder = ld.decoder,
                                  !.data = ld.data]
    IN  IF ~run_clicked
        THEN [category |-> cat, example |-> ex, model_syntax |-> text,
              engine |-> NoEngine, view |-> base]
        ELSE IF IsBlank(text)
        THEN [category |-> cat, example |-> ex, model_syntax |-> text,
              engine |-> NoEngine,
              view |-> [base EXCEPT !.sidebar_error =
                            "Please define the model syntax before running SEM."]]
        ELSE LET t == try_block(text, ld.data, eng)
             IN  [category |-> cat, example |-> ex, model_syntax |-> text,
                  engine |-> [calls |-> t.calls, stats |-> t.stats, table |-> t.table],
                  view |-> [base EXCEPT !.apa = t.apa, !.params = t.params,
                                        !.error = except_handler(t.raised)]]

(* ------------------------------ the session ---------------------------- *)
Ext(w) == CASE w = "csv" -> <<"c", "s", "v">>
            [] w = "CSV" -> <<"C", "S", "V">>
            [] w = "Csv" -> <<"C", "s", "v">>
            [] w = "txt" -> <<"t", "x", "t">>
            [] w = "xlsx" -> <<"x", "l", "s", "x">>
            [] w = "XLS" -> <<"X", "L", "S">>
            [] w = "sav" -> <<"s", "a", "v">>
            [] w = "por" -> <<"p", "o", "r">>
            [] w = "dta" -> <<"d", "t", "a">>
            [] w = "JSON" -> <<"J", "S", "O", "N">>
            [] w = "sas7bdat" -> <<"s", "a", "s", "7", "b", "d", "a", "t">>
            [] w = "pdf" -> <<"p", "d", "f">>

ExtensionWords ==
    {"csv", "CSV", "Csv", "txt", "xlsx", "XLS", "sav", "por", "dta", "JSON", "sas7bdat", "pdf"}

\* "data.<ext>", the two-dot name "data.csv.txt" and the dotless name "csv"
FileNames ==
    {<<<<"d", "a", "t", "a">>, Ext(w)>> : w \in ExtensionWords}
    \cup {<<<<"d", "a", "t", "a">>, Ext("csv"), Ext("txt")>>, <<Ext("CSV")>>}

Files == [name : FileNames, ok : BOOLEAN]

DataName(w) == <<<<"d", "a", "t", "a">>, Ext(w)>>

\* The files of a working session: two that load, one that does not decode,
\* one of an unsupported format.
SessionFiles ==
    {[name |-> DataName("csv"), ok |-> TRUE], [name |-> DataName("XLS"), ok |-> TRUE],
     [name |-> DataName("csv"), ok |-> FALSE], [name |-> DataName("txt"), ok |-> TRUE]}

EditTexts ==
    {<<" ", NL>>, <<"y ~ x">>, <<NL, "y ~ x", NL, "z ~ y", " ">>}

Rerun(file, cat, ex, buffer, load_clicked, run_clicked, eng, op) ==
    \E r \in {main(file, cat, ex, buffer, load_clicked, run_clicked, eng)} :
        /\ uploaded_file' = file
        /\ category' = r.category
        /\ example' = r.example
        /\ model_syntax' = r.model_syntax
        /\ view' = r.view
        /\ engine' = r.engine
        /\ lastOp' = op

AnyEngine == CHOOSE e \in EngineBehaviours : TRUE

Init ==
    LET r == main(<<>>, DefaultCategory, DefaultExample(DefaultCategory), <<>>,
                  FALSE, FALSE, AnyEngine)
    IN  /\ uploaded_file = <<>>
        /\ category = r.category
        /\ example = r.example
        /\ model_syntax = r.model_syntax
        /\ view = r.view
        /\ engine = r.engine
        /\ lastOp = "start"

\* The file uploader receives a file (replacing the one it had).
Upload ==
    \E f \in SessionFiles :
        /\ uploaded_file # <<f>>
        /\ Rerun(<<f>>, category, example, model_syntax, FALSE, FALSE, AnyEngine, "upload")

\* The same, for a file of any name.
UploadAny ==
    \E f \in Files :
        /\ uploaded_file # <<f>>
        /\ Rerun(<<f>>, category, example, model_syntax, FALSE, FALSE, AnyEngine, "upload")

\* The user removes the uploaded file.
RemoveFile ==
    /\ uploaded_file # <<>>
    /\ Rerun(<<>>, category, example, model_syntax, FALSE, FALSE, AnyEngine, "remove")

\* The category select box changes; the example select box, whose options
\* are the new category's examples, starts again at its first option.
ChangeCategory ==
    \E c \in Range(Categories) :
        /\ "category" \in view.widgets
        /\ c # category
        /\ Rerun(uploaded_file, c, DefaultExample(c), model_syntax, FALSE, FALSE,
                 AnyEngine, "category")

ChangeExample ==
    \E e \in Range(ExampleNames[category]) :
        /\ "example" \in view.widgets
        /\ e # example
        /\ Rerun(uploaded_file, category, e, model_syntax, FALSE, FALSE,
                 AnyEngine, "example")

\* "Load Example into Model Syntax"
LoadTemplate ==
    /\ "load_button" \in view.widgets
    /\ Rerun(uploaded_file, category, example, model_syntax, TRUE, FALSE,
             AnyEngine, "load")

\* The user types in the text area.
Edit ==
    \E t \in EditTexts :
        /\ "model_syntax" \in view.widgets
        /\ t # model_syntax
        /\ Rerun(uploaded_file, category, example, t, FALSE, FALSE, AnyEngine, "edit")

\* "Run SEM"
RunSEM ==
    \E eng \in EngineBehaviours :
        /\ "run_button" \in view.widgets
        /\ Rerun(uploaded_file, category, example, model_syntax, FALSE, TRUE, eng, "run")

\* The page is rendered again with nothing changed.
Rerender ==
    Rerun(uploaded_file, category, example, model_syntax, FALSE, FALSE, AnyEngine, "rerender")

Next ==
    \/ Upload
    \/ RemoveFile
    \/ ChangeCategory
    \/ ChangeExample
    \/ LoadTemplate
    \/ Edit
    \/ RunSEM
    \/ Rerender

Spec == Init /\ [][Next]_vars

\* The loader under every file name: uploads and template loads only.
NextLoader ==
    \/ UploadAny
    \/ RemoveFile
    \/ ChangeCategory
    \/ ChangeExample
    \/ LoadTemplate
    \/ Rerender

SpecLoader == Init /\ [][NextLoader]_vars

(* ================================ claims =============================== *)
AllWhitespace(text) == \A i \in 1..Len(text) : text[i] \in Whitespace

EngineRaised(e) == \E k \in 1..Len(e.calls) : e.calls[k].raised

CallsOf(e, op) == {k \in 1..Len(e.calls) : e.calls[k].op = op}

ShowsResult(v) == v.apa # <<>> /\ v.params # <<>> /\ v.error = ""

\* C1: a rerun caused by the category picker, by the example picker or by a
\* plain re-render, with the load button not pressed, leaves the text of
\* the model-specification buffer as it was, whatever the user typed.
C1_NonClobbering ==
    [][lastOp' \in {"category", "example", "rerender"} => model_syntax' = model_syntax]_vars

\* A picker changed while the buffer holds what the user typed.
C1_Witness ==
    /\ lastOp \in {"category", "example"}
    /\ model_syntax \in EditTexts
    /\ model_syntax # Strip(MODEL_SYNTAX_EXAMPLES[category][example])

\* C2: once a run has succeeded, the result on the page stays the same over
\* every later rerun caused by a picker, an edit, a template load, a
\* re-render or a failing run; only the next successful run replaces it.
C2_ResultPersists ==
    [][(/\ ShowsResult(view)
        /\ lastOp' \in {"category", "example", "edit", "load", "rerender", "run"}
        /\ ~(lastOp' = "run" /\ ShowsResult(view')))
       => (view'.apa = view.apa /\ view'.params = view.params)]_vars

\* C3: without a dataset no engine call is made and no run is on offer; a
\* rerun without the run button makes no engine call; a run on a blank
\* (whitespace-only) text reports the empty specification and makes no
\* engine call; any other run constructs one Model from the buffer and, the
\* constructor returning, fits it once on the loaded dataset.
C3_RunPreconditions ==
    /\ view.data = <<>> =>
          /\ engine.calls = <<>>
          /\ "run_button" \notin view.widgets
          /\ view.info \/ view.load_error # ""
    /\ lastOp # "run" => engine.calls = <<>>
    /\ lastOp = "run" /\ AllWhitespace(model_syntax) =>
          /\ engine.calls = <<>>
          /\ view.sidebar_error # ""
    /\ lastOp = "run" /\ ~AllWhitespace(model_syntax) =>
          /\ view.sidebar_error = ""
          /\ CallsOf(engine, "Model") = {1}
          /\ engine.calls[1].spec = model_syntax
          /\ CallsOf(engine, "model.fit") \subseteq {2}
          /\ ~engine.calls[1].raised =>
                /\ CallsOf(engine, "model.fit") = {2}
                /\ engine.calls[2].data = view.data

\* A run reached model.fit.
C3_Witness ==
    /\ lastOp = "run"
    /\ Len(engine.calls) >= 2
    /\ engine.calls[2].data = view.data

\* C4: a run that ends in a failure has put no part of a result on the
\* page, and a run that ends without one has put all of it there.
C4_AllOrNothing ==
    /\ view.error # "" => view.apa = <<>> /\ view.params = <<>>
    /\ lastOp = "run" /\ view.error = "" /\ view.sidebar_error = "" =>
          view.apa # <<>> /\ view.params # <<>>

\* The known spellings of each canonical statistic, first match first.
StatAliases ==
    [chi_sq      |-> <<"Chi-square", "Chi2">>,
     df          |-> <<"df", "DoF">>,
     p_val       |-> <<"p-value", "PValue">>,
     cfi         |-> <<"CFI">>,
     tli         |-> <<"TLI">>,
     rmsea       |-> <<"RMSEA">>,
     rmsea_lower |-> <<"RMSEA Lower", "RMSEA_CI_lower">>,
     rmsea_upper |-> <<"RMSEA Upper">>]

StatFormat ==
    [chi_sq |-> ".2f", df |-> "", p_val |-> ".3f", cfi |-> ".3f", tli |-> ".3f",
     rmsea |-> ".3f", rmsea_lower |-> ".3f", rmsea_upper |-> ".3f"]

Resolved(stat_dict, aliases) ==
    IF \E i \in 1..Len(aliases) : aliases[i] \in DOMAIN stat_dict
    THEN stat_dict[aliases[CHOOSE i \in 1..Len(aliases) :
                              /\ aliases[i] \in DOMAIN stat_dict
                              /\ \A j \in 1..(i - 1) : aliases[j] \notin DOMAIN stat_dict]]
    ELSE NA

\* C5: every statistic on the page is the formatted value the engine's
\* mapping holds under the first known spelling of that statistic, and
\* "N/A" when the mapping holds none of its spellings.
C5_AliasResolution ==
    view.apa # <<>> =>
        \A key \in DOMAIN StatAliases :
            view.apa[1][key] =
                safe_format(Resolved(engine.stats[1], StatAliases[key]), StatFormat[key])

Exposes(df, label) == label \in Range(df.cols)

\* C6: when the engine's table has the columns lval, op, rval and Estimate,
\* every row on the page has "lval op rval" as its Parameter and the
\* engine's estimate, to three decimals, as its Estimate.
C6_StructuredLabel ==
    (/\ view.params # <<>>
     /\ \A label \in {"lval", "op", "rval", "Estimate"} : Exposes(engine.table[1], label))
    => LET raw == engine.table[1]
           Raw(r, label) == raw.rows[r][IndexOf(raw.cols, label)]
       IN  \A r \in 1..Len(raw.rows) :
              /\ view.params[1].rows[r][IndexOf(expected_columns, "Parameter")] =
                    PyStr(Raw(r, "lval").s \o " " \o Raw(r, "op").s \o " " \o Raw(r, "rval").s)
              /\ view.params[1].rows[r][IndexOf(expected_columns, "Estimate")] =
                    FormatFixed(Raw(r, "Estimate"), 3)

\* C7 as stated: every template load leaves in the buffer the catalog text
\* of the selected category and example, edited before or not, and a second
\* load right after the first changes nothing.
C7_LoadCatalogText ==
    [][lastOp' = "load" =>
          /\ model_syntax' = MODEL_SYNTAX_EXAMPLES[category'][example']
          /\ lastOp = "load" => model_syntax' = model_syntax]_vars

\* C7 amended: every template load leaves in the buffer the catalog text of
\* the selected category and example with its leading and trailing
\* whitespace removed, edited before or not, and a second load right after
\* the first changes nothing.
C7_LoadStrippedText ==
    [][lastOp' = "load" =>
          /\ model_syntax' = Strip(MODEL_SYNTAX_EXAMPLES[category'][example'])
          /\ category' = category /\ example' = example
          /\ lastOp = "load" => model_syntax' = model_syntax]_vars

\* A template was loaded.
C7_Witness ==
    /\ lastOp = "load"
    /\ model_syntax = Strip(MODEL_SYNTAX_EXAMPLES[category][example])
    /\ model_syntax # MODEL_SYNTAX_EXAMPLES[category][example]

\* C8: a run on a blank text, and a run in which an engine call raises,
\* reports the failure, leaves the buffer, the template selection and the
\* uploaded file as they were, and renders every widget again.
C8_FailedRunKeepsState ==
    [][(lastOp' = "run" /\ (AllWhitespace(model_syntax) \/ EngineRaised(engine'))) =>
          /\ model_syntax' = model_syntax
          /\ category' = category
          /\ example' = example
          /\ uploaded_file' = uploaded_file
          /\ view'.widgets = AllWidgets
          /\ IF AllWhitespace(model_syntax)
             THEN view'.sidebar_error # "" /\ view'.error = ""
             ELSE view'.error # "" /\ view'.sidebar_error = ""]_vars

\* A run failed in the engine on a text the user loaded or typed.
C8_Witness ==
    /\ lastOp = "run"
    /\ EngineRaised(engine)
    /\ view.error # ""
    /\ model_syntax # <<>>

\* The spellings, among the model's file names, of each format tag.
Spellings ==
    [csv |-> {Ext("csv"), Ext("CSV"), Ext("Csv")}, txt |-> {Ext("txt")},
     xlsx |-> {Ext("xlsx")}, xls |-> {Ext("XLS")}, sav |-> {Ext("sav")},
     por |-> {Ext("por")}, dta |-> {Ext("dta")}, json |-> {Ext("JSON")},
     sas7bdat |-> {Ext("sas7bdat")}]

LastPiece(file) == file.name[Len(file.name)]

Handled(tags) == UNION {Spellings[t] : t \in tags}

ExpectedDecoder ==
    [csv |-> "pd.read_csv", xlsx |-> "pd.read_excel(openpyxl)",
     xls |-> "pd.read_excel(xlrd)", sav |-> "pyreadstat.read_sav",
     por |-> "pyreadstat.read_sav", dta |-> "pd.read_stata", json |-> "pd.read_json"]

C10_PositionalColumns ==
    /\ lastOp = "run" /\ view.error = "" /\ view.sidebar_error = "" => view.params # <<>>
    /\ view.params # <<>> =>
          LET raw   == ResetIndex(engine.table[1])
              n     == Len(raw.cols)
              shown == view.params[1]
          IN  /\ shown.cols = <<"Parameter", "Estimate", "Std. Error", "z-value",
                                "p-value", "CI Lower", "CI Upper">>
              /\ Len(shown.rows) = Len(raw.rows)
              /\ \A r \in 1..Len(raw.rows) :
                    /\ Len(shown.rows[r]) = 7
                    /\ \A i \in 1..7 :
                          shown.rows[r][i] =
                              IF i > n THEN PyStr("N/A")
                              ELSE IF i = 1 THEN raw.rows[r][1]
                              ELSE safe_param_format(raw.rows[r][i])

\* A table of fewer than seven columns, with rows, was padded.
C10_Witness ==
    /\ view.params # <<>>
    /\ Len(engine.table[1].cols) + 1 < 7
    /\ Len(view.params[1].rows) >= 2
    /\ view.params[1].rows[2][7] = PyStr("N/A")
    /\ view.params[1].rows[2][2] = PyStr("DependentVariable")

====
